---- MODULE Spec2Model ----
(***************************************************************************)
(* Model of pymc_extras/statespace/utils/data_tools.py (data ingestion:     *)
(* shape validation, per-container preprocessing, missing-value masking,    *)
(* registration in the active model) and of simulate_from_numpy_model in    *)
(* tests/statespace/test_utilities.py.                                      *)
(***************************************************************************)
EXTENDS Integers, Sequences, FiniteSets, TLC

VARIABLES ppIn, ppOut, mkIn, mkOut, coords, named, regLast, simP, simS

vars == <<ppIn, ppOut, mkIn, mkOut, coords, named, regLast, simP, simS>>

(***************************************************************************)
(* Bounds of the model.                                                     *)
(***************************************************************************)
MaxRank == 3
MaxDim == 2
MaxRows == 3
MaxLabel == 2
MaxObs == 2
MaxMaskRows == 2
MaxSteps == 3
MaxIdx == 2

Names == {"a", "b"}
Labels == 0..MaxLabel

(***************************************************************************)
(* Values.  A float entry is finite (an integer here), NaN or +/-inf.       *)
(***************************************************************************)
Fin(n) == [k |-> "fin", v |-> n]
NaN == [k |-> "nan", v |-> 0]
PosInf == [k |-> "inf", v |-> 1]
NegInf == [k |-> "inf", v |-> -1]

\* Python's None (for an optional collection, name, float, sequence) / a present value
None == [some |-> FALSE, v |-> {}]
NoName == [some |-> FALSE, v |-> ""]
NoFill == [some |-> FALSE, v |-> [k |-> "fin", v |-> 0]]
NoDims == [some |-> FALSE, v |-> <<>>]
Some(x) == [some |-> TRUE, v |-> x]

\* IEEE equality, as numpy's == on floats: NaN equals nothing
FloatEq(a, b) == a.k # "nan" /\ b.k # "nan" /\ a = b

\* np.isfinite
IsFinite(a) == a.k = "fin"

RECURSIVE Prod(_)
Prod(shape) == IF shape = <<>> THEN 1 ELSE Head(shape) * Prod(Tail(shape))

\* np.arange(n, dtype="int")
Arange(n) == [i \in 1..n |-> i - 1]

NoIndex == [kind |-> "none", labels |-> <<>>, freq |-> ""]
ArangeIndex(n) == [kind |-> "arange", labels |-> Arange(n), freq |-> ""]

NO_TIME_INDEX_WARNING == "NO_TIME_INDEX_WARNING"
NO_FREQ_INFO_WARNING == "NO_FREQ_INFO_WARNING"
ImputationWarning == "ImputationWarning"

(***************************************************************************)
(* Results of a call: the exception raised (or "none"), the returned        *)
(* (values, index) pair and the warnings emitted, in order.                 *)
(***************************************************************************)
NoExc == [exc |-> "none", why |-> ""]
Raise(e, w) == [exc |-> e, why |-> w]

Returned(values, index, warns) ==
    [exc |-> "none", why |-> "", values |-> values, index |-> index, warns |-> warns]
Raised(e, warns) ==
    [exc |-> e.exc, why |-> e.why, values |-> [shape |-> <<>>, vals |-> <<>>],
     index |-> NoIndex, warns |-> warns]
Pending ==
    [exc |-> "pending", why |-> "", values |-> [shape |-> <<>>, vals |-> <<>>],
     index |-> NoIndex, warns |-> <<>>]

(***************************************************************************)
(* _validate_data_shape                                                     *)
(***************************************************************************)
\* a validator that forgets the column-count comparison
validate_data_shape_no_count(data_shape, n_obs, obs_coords, check_col_names, col_names) ==
    IF Len(data_shape) # 2
    THEN Raise("ValueError", "not_2d")
    ELSE IF check_col_names
         THEN IF ~obs_coords.some
              THEN Raise("TypeError", "obs_coords_none")
              ELSE IF obs_coords.v \ col_names # {}
                   THEN Raise("ValueError", "missing_cols")
                   ELSE NoExc
         ELSE NoExc

validate_data_shape(data_shape, n_obs, obs_coords, check_col_names, col_names) ==
    IF Len(data_shape) # 2
    THEN Raise("ValueError", "not_2d")
    ELSE IF data_shape[Len(data_shape)] # n_obs
         THEN Raise("ValueError", "n_columns")
         ELSE IF check_col_names
              THEN IF ~obs_coords.some
                   THEN Raise("TypeError", "obs_coords_none")
                   ELSE IF obs_coords.v \ col_names # {}
                        THEN Raise("ValueError", "missing_cols")
                        ELSE NoExc
              ELSE NoExc

NoTimeIndexWarning(obs_coords) ==
    IF obs_coords.some THEN <<NO_TIME_INDEX_WARNING>> ELSE <<>>

(***************************************************************************)
(* preprocess_tensor_data / preprocess_numpy_data                           *)
(***************************************************************************)
preprocess_tensor_data(data, n_obs, obs_coords) ==
    LET data_shape == data.shape
        v == validate_data_shape(data_shape, n_obs, obs_coords, FALSE, {})
    IN  IF v.exc # "none"
        THEN Raised(v, <<>>)
        ELSE Returned([shape |-> data.shape, vals |-> data.vals],
                      ArangeIndex(data_shape[1]),
                      NoTimeIndexWarning(obs_coords))

preprocess_numpy_data(data, n_obs, obs_coords) ==
    LET v == validate_data_shape(data.shape, n_obs, obs_coords, FALSE, {})
    IN  IF v.exc # "none"
        THEN Raised(v, <<>>)
        ELSE Returned([shape |-> data.shape, vals |-> data.vals],
                      ArangeIndex(data.shape[1]),
                      NoTimeIndexWarning(obs_coords))

(***************************************************************************)
(* preprocess_pandas_data                                                   *)
(***************************************************************************)
\* pd.Series.to_frame, after the unnamed series is named "data"
to_frame(data) ==
    IF data.kind = "series"
    THEN [data EXCEPT !.kind = "frame",
                      !.shape = <<data.shape[1], 1>>,
                      !.columns = {IF data.name.some THEN data.name.v ELSE "data"}]
    ELSE data

\* DataFrame.values
FrameValues(data) == [shape |-> data.shape, vals |-> data.vals]

\* index.to_series().diff().dropna().values
index_diff(labels) == [i \in 1..(Len(labels) - 1) |-> labels[i + 1] - labels[i]]

\* a check that only asks for an increasing index
AllIncreasing(d) == \A i \in 1..Len(d) : d[i] >= 1

\* (index_diff == 1).all()
AllOnes(d) == \A i \in 1..Len(d) : d[i] = 1

\* a dispatch that never recognises a MultiIndex
IsMultiIndexNever(index) == FALSE

\* isinstance(data.index, pd.MultiIndex)
IsMultiIndex(index) == index.kind = "multi"

\* prepend the warnings already emitted by the caller to a callee's result
WithWarns(warns, res) == [res EXCEPT !.warns = warns \o res.warns]

preprocess_pandas_data(data0, n_obs, obs_coords, check_column_names) ==
    LET data == to_frame(data0)
        col_names == data.columns
        v == validate_data_shape(data.shape, n_obs, obs_coords, check_column_names, col_names)
        index == data.index
    IN  IF v.exc # "none"
        THEN Raised(v, <<>>)
        ELSE IF index.kind = "datetime"
        THEN IF index.freq = "none"
             THEN Returned(FrameValues(data), [index EXCEPT !.freq = "inferred"],
                           <<NO_FREQ_INFO_WARNING>>)
             ELSE Returned(FrameValues(data), index, <<>>)
        ELSE IF index.kind = "range"
        THEN WithWarns(NoTimeIndexWarning(obs_coords),
                       preprocess_numpy_data(FrameValues(data), n_obs, obs_coords))
        ELSE IF IsMultiIndex(index)
        THEN Raised(Raise("NotImplementedError", "multiindex"), NoTimeIndexWarning(obs_coords))
        ELSE IF index.kind # "int"
        THEN Raised(Raise("IndexError", "not_integer"), NoTimeIndexWarning(obs_coords))
        ELSE IF ~AllOnes(index_diff(index.labels))
        THEN Raised(Raise("IndexError", "not_monotonic"), NoTimeIndexWarning(obs_coords))
        ELSE WithWarns(NoTimeIndexWarning(obs_coords),
                       preprocess_numpy_data(FrameValues(data), n_obs, obs_coords))

(***************************************************************************)
(* Inputs of the preprocessors.                                             *)
(***************************************************************************)
\* entries of an array of the given shape, row-major: distinct finite values
Fill(shape) == [i \in 1..Prod(shape) |-> Fin(i)]

Shapes == UNION {[1..r -> 0..MaxDim] : r \in 0..MaxRank}

ArrayInputs ==
    {[kind |-> kd, shape |-> s, vals |-> Fill(s), index |-> NoIndex,
      columns |-> {}, name |-> NoName] : kd \in {"tensor", "numpy"}, s \in Shapes}

Indexes(n) ==
    {[kind |-> "range", labels |-> [i \in 1..n |-> st + i - 1], freq |-> ""] : st \in {0, 1}}
    \cup {[kind |-> "datetime", labels |-> Arange(n), freq |-> f] : f \in {"none", "D"}}
    \cup {[kind |-> kd, labels |-> Arange(n), freq |-> ""] : kd \in {"multi", "float"}}
    \cup {[kind |-> "int", labels |-> l, freq |-> ""] : l \in [1..n -> Labels]}

FrameInputs ==
    UNION {{[kind |-> "frame", shape |-> <<n, Cardinality(cs)>>,
             vals |-> Fill(<<n, Cardinality(cs)>>), index |-> ix,
             columns |-> cs, name |-> NoName] : cs \in SUBSET Names, ix \in Indexes(n)}
           : n \in 0..MaxRows}

SeriesInputs ==
    UNION {{[kind |-> "series", shape |-> <<n>>, vals |-> Fill(<<n>>), index |-> ix,
             columns |-> {}, name |-> nm] : nm \in {NoName, Some("a")}, ix \in Indexes(n)}
           : n \in 0..MaxRows}

ObsCoordsSet == {None} \cup {Some(s) : s \in SUBSET Names}

IdleData ==
    [kind |-> "idle", shape |-> <<>>, vals |-> <<>>, index |-> NoIndex,
     columns |-> {}, name |-> NoName]
IdleCall == [data |-> IdleData, n_obs |-> 0, obs_coords |-> None, check |-> FALSE]

PreInit ==
    /\ \E d \in ArrayInputs \cup FrameInputs \cup SeriesInputs,
          n \in 0..MaxObs, oc \in ObsCoordsSet, ck \in BOOLEAN :
          /\ (d.kind \in {"tensor", "numpy"} => ck = FALSE)
          /\ ppIn = [data |-> d, n_obs |-> n, obs_coords |-> oc, check |-> ck]
    /\ ppOut = Pending

PreprocessTensor ==
    /\ ppOut.exc = "pending"
    /\ ppIn.data.kind = "tensor"
    /\ ppOut' = preprocess_tensor_data(ppIn.data, ppIn.n_obs, ppIn.obs_coords)
    /\ UNCHANGED <<ppIn, mkIn, mkOut, coords, named, regLast, simP, simS>>

PreprocessNumpy ==
    /\ ppOut.exc = "pending"
    /\ ppIn.data.kind = "numpy"
    /\ ppOut' = preprocess_numpy_data(ppIn.data, ppIn.n_obs, ppIn.obs_coords)
    /\ UNCHANGED <<ppIn, mkIn, mkOut, coords, named, regLast, simP, simS>>

PreprocessPandas ==
    /\ ppOut.exc = "pending"
    /\ ppIn.data.kind \in {"frame", "series"}
    /\ ppOut' = preprocess_pandas_data(ppIn.data, ppIn.n_obs, ppIn.obs_coords, ppIn.check)
    /\ UNCHANGED <<ppIn, mkIn, mkOut, coords, named, regLast, simP, simS>>

(***************************************************************************)
(* mask_missing_values_in_data                                              *)
(***************************************************************************)
\* MISSING_FILL of pymc_extras/statespace/utils/constants.py
MISSING_FILL == Fin(-9999)

\* np.ma.masked_invalid(values).mask: true where the entry is NaN or infinite
masked_invalid(vals) == [i \in 1..Len(vals) |-> ~IsFinite(vals[i])]

\* masked_values.filled(missing_fill_value)
filled(vals, mask, fill) == [i \in 1..Len(vals) |-> IF mask[i] THEN fill ELSE vals[i]]

\* np.any over a boolean array
np_any(b) == \E i \in 1..Len(b) : b[i]

\* a collision check that is made whether or not anything is masked
SentinelCollisionAlways(vals, nan_mask, fill) ==
    \E i \in 1..Len(vals) : FloatEq(vals[i], fill)

\* np.any(nan_mask) and np.any(values == missing_fill_value)
SentinelCollision(vals, nan_mask, fill) ==
    /\ np_any(nan_mask)
    /\ \E i \in 1..Len(vals) : FloatEq(vals[i], fill)

MaskPending ==
    [exc |-> "pending", why |-> "", filled |-> [shape |-> <<>>, vals |-> <<>>],
     mask |-> [shape |-> <<>>, vals |-> <<>>], warns |-> <<>>]

mask_missing_values_in_data(values, missing_fill_value) ==
    LET fill == IF missing_fill_value.some THEN missing_fill_value.v ELSE MISSING_FILL
        nan_mask == masked_invalid(values.vals)
        filled_values == filled(values.vals, nan_mask, fill)
    IN  IF SentinelCollision(values.vals, nan_mask, fill)
        THEN [exc |-> "ValueError", why |-> "sentinel_collision",
              filled |-> [shape |-> <<>>, vals |-> <<>>],
              mask |-> [shape |-> <<>>, vals |-> <<>>], warns |-> <<>>]
        ELSE [exc |-> "none", why |-> "",
              filled |-> [shape |-> values.shape, vals |-> filled_values],
              mask |-> [shape |-> values.shape, vals |-> nan_mask],
              warns |-> IF np_any(nan_mask) THEN <<ImputationWarning>> ELSE <<>>]

(***************************************************************************)
(* Inputs of the masker: matrices of finite, NaN and infinite entries.      *)
(***************************************************************************)
MaskEntries == {Fin(0), Fin(1), NaN, PosInf, NegInf}
MaskCols == {1, 2}
FillValues == {NoFill, Some(Fin(0)), Some(Fin(1))}

MaskInputs ==
    UNION {{[shape |-> <<r, c>>, vals |-> v] : v \in [1..(r * c) -> MaskEntries]}
           : r \in 1..MaxMaskRows, c \in MaskCols}

IdleMask == [values |-> [shape |-> <<>>, vals |-> <<>>], missing_fill_value |-> NoFill]

MaskInit ==
    /\ \E m \in MaskInputs, f \in FillValues :
          mkIn = [values |-> m, missing_fill_value |-> f]
    /\ mkOut = MaskPending

MaskMissingValues ==
    /\ mkOut.exc = "pending"
    /\ mkIn # IdleMask
    /\ mkOut' = mask_missing_values_in_data(mkIn.values, mkIn.missing_fill_value)
    /\ UNCHANGED <<ppIn, ppOut, mkIn, coords, named, regLast, simP, simS>>

(***************************************************************************)
(* Idle values of the parts a specification does not exercise.              *)
(***************************************************************************)
NoCoords == [d \in {} |-> NoDims]
IdleReg ==
    [op |-> "none", called |-> FALSE, index |-> <<>>, time_dim |-> "", pre |-> "absent",
     found |-> <<>>, declared |-> FALSE, exc |-> "none", why |-> ""]
IdleSimP ==
    [steps |-> 0, k_posdef |-> 0, x0 |-> <<>>, c |-> <<>>, d |-> <<>>, T |-> <<>>,
     Z |-> [ndim |-> 2, m |-> <<>>], R |-> <<>>, H |-> <<>>, Q |-> <<>>]
\* nothing returned yet
NoReturn == [x |-> <<>>, y |-> [shape |-> <<>>, vals |-> <<>>]]
IdleSimS == [pc |-> "idle", t |-> 0, x |-> <<>>, y |-> <<>>, ret |-> NoReturn]

PreIdle == ppIn = IdleCall /\ ppOut = Pending
MaskIdle == mkIn = IdleMask /\ mkOut = MaskPending
RegIdle == coords = NoCoords /\ named = {} /\ regLast = IdleReg
SimIdle == simP = IdleSimP /\ simS = IdleSimS

(***************************************************************************)
(* The active model (modelcontext(None)): coords maps a dimension name to   *)
(* None or to its bound labels; named holds the declared data inputs.       *)
(***************************************************************************)
\* TIME_DIM, OBS_STATE_DIM of pymc_extras/statespace/utils/constants.py
TIME_DIM == "time"
OBS_STATE_DIM == "observed_state"

\* the coordinate map with name bound to value
WithCoord(cs, name, value) ==
    [d \in (DOMAIN cs) \cup {name} |-> IF d = name THEN value ELSE cs[d]]

\* np.array_equal(found_time, tuple(index))
array_equal(a, b) == Len(a) = Len(b) /\ \A i \in 1..Len(a) : a[i] = b[i]

\* a binding step that overwrites a conflicting coordinate instead of failing
BindTimeCoordOverwrite(cs, time_dim, index) ==
    [coords |-> WithCoord(cs, time_dim, Some(index)), exc |-> NoExc]

\* a binding step that treats a present-but-empty coordinate as a conflict
BindTimeCoordNoAdopt(cs, time_dim, index) ==
    IF time_dim \notin DOMAIN cs
    THEN [coords |-> WithCoord(cs, time_dim, Some(index)), exc |-> NoExc]
    ELSE IF ~cs[time_dim].some \/ ~array_equal(cs[time_dim].v, index)
         THEN [coords |-> cs, exc |-> Raise("ValueError", "time_index_conflict")]
         ELSE [coords |-> cs, exc |-> NoExc]

\* lines 130-140 of add_data_to_active_model: create, adopt or validate the
\* time coordinate
BindTimeCoord(cs, time_dim, index) ==
    IF time_dim \notin DOMAIN cs
    THEN [coords |-> WithCoord(cs, time_dim, Some(index)), exc |-> NoExc]
    ELSE LET found_time == cs[time_dim]
         IN  IF ~found_time.some
             THEN [coords |-> WithCoord(cs, time_dim, Some(index)), exc |-> NoExc]
             ELSE IF ~array_equal(found_time.v, index)
                  THEN [coords |-> cs, exc |-> Raise("ValueError", "time_index_conflict")]
                  ELSE [coords |-> cs, exc |-> NoExc]

\* the shape hint: (None, 1) for a single column or 1-d values, else (None, ncols)
data_shape_hint(values) ==
    LET sh == values.shape
    IN  IF sh[Len(sh)] = 1 \/ Len(sh) = 1 THEN <<"None", "1">> ELSE <<"None", "n">>

\* pm.Data(name, values, dims, shape) in the active model: dimensions not yet
\* known to the model are added without labels, then the name is registered
\* and must be new
pm_Data(cs, nv, name, values, dims, shape) ==
    LET cs2 == [d \in (DOMAIN cs) \cup {dims[i] : i \in 1..Len(dims)} |->
                    IF d \in DOMAIN cs THEN cs[d] ELSE NoDims]
    IN  IF \E v \in nv : v.name = name
        THEN [coords |-> cs2, named |-> nv, exc |-> Raise("ValueError", "name_exists")]
        ELSE [coords |-> cs2,
              named |-> nv \cup {[name |-> name, dims |-> dims, shape |-> shape]},
              exc |-> NoExc]

add_data_to_active_model(cs, nv, values, index, data_dims0) ==
    LET data_dims == IF data_dims0.some THEN data_dims0.v ELSE <<TIME_DIM, OBS_STATE_DIM>>
        time_dim == data_dims[1]
        b == BindTimeCoord(cs, time_dim, index)
    IN  IF b.exc.exc # "none"
        THEN [coords |-> b.coords, named |-> nv, exc |-> b.exc]
        ELSE pm_Data(b.coords, nv, "data", values, data_dims, data_shape_hint(values))

(***************************************************************************)
(* register_data_with_pymc                                                  *)
(***************************************************************************)
Preprocess(data, n_obs, obs_coords) ==
    IF data.kind = "tensor" THEN preprocess_tensor_data(data, n_obs, obs_coords)
    ELSE IF data.kind = "numpy" THEN preprocess_numpy_data(data, n_obs, obs_coords)
    ELSE IF data.kind \in {"frame", "series"}
    THEN preprocess_pandas_data(data, n_obs, obs_coords, FALSE)
    ELSE Raised(Raise("ValueError", "unsupported_container"), <<>>)

\* result: the model afterwards, the exception, and whether (and with which
\* index) add_data_to_active_model was called
register_data_with_pymc(cs, nv, data, n_obs, obs_coords, register_data, fill_value, data_dims) ==
    LET pre == Preprocess(data, n_obs, obs_coords)
        m == mask_missing_values_in_data(pre.values, fill_value)
        stay(e) == [coords |-> cs, named |-> nv, exc |-> e, called |-> FALSE, index |-> <<>>]
    IN  IF pre.exc # "none" THEN stay(Raise(pre.exc, pre.why))
        ELSE IF m.exc # "none" THEN stay(Raise(m.exc, m.why))
        ELSE IF ~register_data THEN stay(NoExc)
        ELSE LET r == add_data_to_active_model(cs, nv, m.filled, pre.index.labels, data_dims)
             IN  [coords |-> r.coords, named |-> r.named, exc |-> r.exc,
                  called |-> TRUE, index |-> pre.index.labels]

(***************************************************************************)
(* Inputs of the registration calls.                                        *)
(***************************************************************************)
\* label sequences 0..n-1 and 1..n
IndexSet == {[i \in 1..n |-> st + i - 1] : n \in 1..MaxIdx, st \in {0, 1}}

DimsSet == {NoDims, Some(<<"t2", OBS_STATE_DIM>>)}

ResolvedDims(dd) == IF dd.some THEN dd.v ELSE <<TIME_DIM, OBS_STATE_DIM>>

MkData(kd, shape, vals, index, columns) ==
    [kind |-> kd, shape |-> shape, vals |-> vals, index |-> index,
     columns |-> columns, name |-> NoName]

RegData ==
    {MkData("numpy", <<2, 1>>, <<Fin(1), NaN>>, NoIndex, {}),
     MkData("numpy", <<1, 2>>, <<Fin(0), Fin(1)>>, NoIndex, {}),
     MkData("tensor", <<1, 1>>, <<Fin(0)>>, NoIndex, {}),
     MkData("list", <<2, 1>>, <<Fin(0), Fin(1)>>, NoIndex, {}),
     MkData("frame", <<2, 1>>, <<Fin(0), PosInf>>,
            [kind |-> "datetime", labels |-> <<1, 2>>, freq |-> "D"], {"a"}),
     MkData("frame", <<2, 1>>, <<Fin(0), Fin(1)>>,
            [kind |-> "int", labels |-> <<0, 2>>, freq |-> ""], {"a"}),
     MkData("frame", <<2, 1>>, <<Fin(0), Fin(0)>>,
            [kind |-> "int", labels |-> <<1, 2>>, freq |-> ""], {"a"})}

CoordValues == {NoDims} \cup {Some(ix) : ix \in IndexSet}

RegInit ==
    /\ \E S \in SUBSET {TIME_DIM, "t2"} : coords \in [S -> CoordValues]
    /\ named = {}
    /\ regLast = IdleReg

\* what is remembered of the last call: the time dimension it used, how the
\* model held that coordinate before the call ("absent", "empty" or "bound" to
\* found), the index handed to add_data_to_active_model (if it was called),
\* whether the call declared a new data input, and the exception raised
CallRecord(op, called, index, dd, r) ==
    LET td == ResolvedDims(dd)[1]
    IN  [op |-> op, called |-> called, index |-> index, time_dim |-> td,
         pre |-> IF td \notin DOMAIN coords THEN "absent"
                 ELSE IF coords[td].some THEN "bound" ELSE "empty",
         found |-> IF td \in DOMAIN coords THEN coords[td].v ELSE <<>>,
         declared |-> r.named # named,
         exc |-> r.exc.exc, why |-> r.exc.why]

AddDataToActiveModel ==
    \E index \in IndexSet, ncols \in {1, 2}, dd \in DimsSet :
        LET values == [shape |-> <<Len(index), ncols>>, vals |-> Fill(<<Len(index), ncols>>)]
            r == add_data_to_active_model(coords, named, values, index, dd)
        IN  /\ coords' = r.coords
            /\ named' = r.named
            /\ regLast' = CallRecord("add_data", TRUE, index, dd, r)
            /\ UNCHANGED <<ppIn, ppOut, mkIn, mkOut, simP, simS>>

RegisterDataWithPymc ==
    \E data \in RegData, n_obs \in {1, 2}, register_data \in BOOLEAN,
       f \in {NoFill, Some(Fin(1))}, dd \in DimsSet :
        LET r == register_data_with_pymc(coords, named, data, n_obs, None, register_data, f, dd)
        IN  /\ coords' = r.coords
            /\ named' = r.named
            /\ regLast' = CallRecord("register", r.called, r.index, dd, r)
            /\ UNCHANGED <<ppIn, ppOut, mkIn, mkOut, simP, simS>>

(***************************************************************************)
(* simulate_from_numpy_model (tests/statespace/test_utilities.py), with     *)
(* k_states = 2 and k_endog = 1.  Vectors are sequences, matrices sequences *)
(* of rows; a time-varying Z is a sequence of matrices, one per step.       *)
(***************************************************************************)
RECURSIVE Dot(_, _)
Dot(a, b) == IF a = <<>> THEN 0 ELSE Head(a) * Head(b) + Dot(Tail(a), Tail(b))

\* M @ v
MatVec(M, v) == [i \in 1..Len(M) |-> Dot(M[i], v)]

VecAdd(a, b) == [i \in 1..Len(a) |-> a[i] + b[i]]

\* np.zeros(n)
Zeros(n) == [i \in 1..n |-> 0]

\* np.allclose(M, 0) on integer entries
AllCloseZero(M) == \A i \in 1..Len(M) : \A j \in 1..Len(M[i]) : M[i][j] = 0

\* values a unit-variance normal draw may take in the model
Noise == {-1, 1}

\* rng.multivariate_normal(mean=zeros, cov): a component of zero variance is 0
MultivariateNormal(cov) ==
    {v \in [1..Len(cov) -> Noise \cup {0}] :
        \A i \in 1..Len(cov) : (v[i] = 0) <=> (cov[i][i] = 0)}

\* Z for step t (0-based): Z itself when 2-d, Z[t] when 3-d
ZAt(Z, t) == IF Z.ndim = 2 THEN Z.m ELSE Z.m[t + 1]

\* a state update that drops the intercept c
StateUpdateNoIntercept(c, T, x_prev, innov) == VecAdd(MatVec(T, x_prev), innov)

\* x[t] = c + T @ x[t - 1] + innov
StateUpdate(c, T, x_prev, innov) == VecAdd(VecAdd(c, MatVec(T, x_prev)), innov)

\* y[t] = (d + Z_t @ x[t] + error).squeeze()
Observe(d, Zt, x_t, error) == VecAdd(VecAdd(d, MatVec(Zt, x_t)), error)

\* y[0] = (Z_0 @ x0).squeeze()
ObserveInitial(Z0, x0) == MatVec(Z0, x0)

ObsNoise(H) == IF ~AllCloseZero(H) THEN MultivariateNormal(H) ELSE {Zeros(1)}

X0Set == {<<1, 0>>, <<1, 2>>}
CSet == {<<0, 0>>, <<1, 0>>}
DSet == {<<0>>, <<1>>}
TSet == {<<<<1, 1>>, <<0, 1>>>>, <<<<0, 1>>, <<1, 0>>>>}
ZMats == {<<<<1, 0>>>>, <<<<1, 1>>>>}
RSet == {<<<<1>>, <<0>>>>, <<<<1>>, <<1>>>>}
QSet == {<<<<0>>>>, <<<<1>>>>}
HSet == {<<<<0>>>>, <<<<1>>>>}

ZSet(steps) ==
    {[ndim |-> 2, m |-> z] : z \in ZMats}
    \cup {[ndim |-> 3, m |-> zs] : zs \in [1..steps -> ZMats]}

SimInit ==
    /\ \E steps \in {MaxSteps}, x0 \in X0Set, c \in CSet, d \in DSet, T \in TSet,
          Z \in ZSet(MaxSteps), H \in HSet, k_posdef \in {0, 1} :
          \E R \in (IF k_posdef = 0 THEN {<<<<>>, <<>>>>} ELSE RSet),
             Q \in (IF k_posdef = 0 THEN {<<>>} ELSE QSet) :
             simP = [steps |-> steps, k_posdef |-> k_posdef, x0 |-> x0, c |-> c, d |-> d,
                     T |-> T, Z |-> Z, R |-> R, H |-> H, Q |-> Q]
    /\ simS = [pc |-> "start", t |-> 0, x |-> <<>>, y |-> <<>>, ret |-> NoReturn]

\* lines 249-256: allocate x and y, set x[0] and y[0]
SimStart ==
    /\ simS.pc = "start"
    /\ \E e \in ObsNoise(simP.H) :
          LET x == [i \in 1..simP.steps |-> IF i = 1 THEN simP.x0 ELSE Zeros(2)]
              y0 == VecAdd(ObserveInitial(ZAt(simP.Z, 0), simP.x0), e)
              y == [i \in 1..simP.steps |-> IF i = 1 THEN y0 ELSE Zeros(1)]
          IN  simS' = [pc |-> "loop", t |-> 1, x |-> x, y |-> y, ret |-> NoReturn]
    /\ UNCHANGED <<ppIn, ppOut, mkIn, mkOut, coords, named, regLast, simP>>

\* lines 258-274: one iteration of the loop, for t = simS.t
SimStep ==
    /\ simS.pc = "loop"
    /\ simS.t < simP.steps
    /\ \E shock \in (IF simP.k_posdef > 0 THEN MultivariateNormal(simP.Q) ELSE {<<>>}),
          error \in ObsNoise(simP.H) :
          LET t == simS.t
              innov == IF simP.k_posdef > 0 THEN MatVec(simP.R, shock) ELSE Zeros(2)
              x_t == StateUpdate(simP.c, simP.T, simS.x[t], innov)
              y_t == Observe(simP.d, ZAt(simP.Z, t), x_t, error)
          IN  simS' = [pc |-> "loop", t |-> t + 1,
                       x |-> [simS.x EXCEPT ![t + 1] = x_t],
                       y |-> [simS.y EXCEPT ![t + 1] = y_t],
                       ret |-> NoReturn]
    /\ UNCHANGED <<ppIn, ppOut, mkIn, mkOut, coords, named, regLast, simP>>

\* the entries of a (steps, k_endog) array, row-major
RECURSIVE Flatten(_)
Flatten(rows) == IF rows = <<>> THEN <<>> ELSE Head(rows) \o Flatten(Tail(rows))

IsNotOne(n) == n # 1

\* y.squeeze(): the same entries, every axis of length 1 removed
Squeeze(rows, shape) == [shape |-> SelectSeq(shape, IsNotOne), vals |-> Flatten(rows)]

\* line 276: the loop is over; return x, y.squeeze()
SimReturn ==
    /\ simS.pc = "loop"
    /\ simS.t >= simP.steps
    /\ simS' = [simS EXCEPT !.pc = "done",
                            !.ret = [x |-> simS.x,
                                     y |-> Squeeze(simS.y, <<simP.steps, Len(simP.d)>>)]]
    /\ UNCHANGED <<ppIn, ppOut, mkIn, mkOut, coords, named, regLast, simP>>

(***************************************************************************)
(* Specifications.                                                          *)
(***************************************************************************)
InitPreprocess == PreInit /\ MaskIdle /\ RegIdle /\ SimIdle
NextPreprocess == PreprocessTensor \/ PreprocessNumpy \/ PreprocessPandas
SpecPreprocess == InitPreprocess /\ [][NextPreprocess]_vars

InitMask == PreIdle /\ MaskInit /\ RegIdle /\ SimIdle
NextMask == MaskMissingValues
SpecMask == InitMask /\ [][NextMask]_vars

InitRegister == PreIdle /\ MaskIdle /\ RegInit /\ SimIdle
NextRegister == AddDataToActiveModel \/ RegisterDataWithPymc
SpecRegister == InitRegister /\ [][NextRegister]_vars

InitSim == PreIdle /\ MaskIdle /\ RegIdle /\ SimInit
NextSim == SimStart \/ SimStep \/ SimReturn
SpecSim == InitSim /\ [][NextSim]_vars

(***************************************************************************)
(* Properties of the preprocessors (checked under SpecPreprocess).          *)
(***************************************************************************)
PreDone == ppOut.exc # "pending"
IsTable == ppIn.data.kind \in {"frame", "series"}

\* the shape error of _validate_data_shape (wrong rank or wrong column count)
IsShapeError(out) == out.exc = "ValueError" /\ out.why \in {"not_2d", "n_columns"}

\* number of columns of the table handed to the validator (a series has one)
TableCols == IF ppIn.data.kind = "series" THEN 1 ELSE ppIn.data.shape[2]

\* the table passes the shape check and, when asked for, the column-name check
TableValid ==
    /\ TableCols = ppIn.n_obs
    /\ ppIn.check => (ppIn.obs_coords.some /\ ppIn.obs_coords.v \subseteq to_frame(ppIn.data).columns)

\* C1: for a symbolic tensor, a plain array or a labeled table and every n_obs,
\* preprocessing raises the shape-mismatch ValueError exactly when the data shape
\* is not rank 2 or its last axis differs from n_obs.
C1_ShapeErrorIffBadShape ==
    (PreDone /\ ppIn.data.kind \in {"tensor", "numpy", "frame"}) =>
        (IsShapeError(ppOut) <=>
            ~(Len(ppIn.data.shape) = 2 /\ ppIn.data.shape[2] = ppIn.n_obs))

\* C1 witness: a rank-2 table with a wrong column count was rejected
C1_Witness ==
    /\ PreDone /\ ppIn.data.kind = "frame"
    /\ ppIn.data.shape[2] # ppIn.n_obs
    /\ ppOut.exc = "ValueError" /\ ppOut.why = "n_columns"

\* C2 (as stated): a table with a MultiIndex always fails with
\* NotImplementedError, whatever its column count, column names,
\* check_column_names and obs_coords.
C2_MultiIndexAlwaysNotImplemented ==
    (PreDone /\ IsTable /\ ppIn.data.index.kind = "multi") =>
        ppOut.exc = "NotImplementedError"

\* C2 (amended): a table with a MultiIndex never returns; it fails with
\* NotImplementedError when the shape and column-name validation passes, and
\* with the validation's ValueError (or TypeError for check_column_names with
\* obs_coords None) when it does not.
C2_MultiIndexFailsAfterValidation ==
    (PreDone /\ IsTable /\ ppIn.data.index.kind = "multi") =>
        IF TableValid
        THEN ppOut.exc = "NotImplementedError"
        ELSE ppOut.exc \in {"ValueError", "TypeError"}

\* C2 witness: a shape-valid MultiIndex table failed with NotImplementedError
C2_Witness ==
    /\ PreDone /\ ppIn.data.kind = "frame" /\ ppIn.data.index.kind = "multi"
    /\ ppIn.data.shape[2] = ppIn.n_obs /\ ppIn.data.shape[1] > 0
    /\ ppOut.exc = "NotImplementedError"

\* C3: a valid table with an integer (not range, calendar or multi) index
\* fails with IndexError if some neighbouring labels do not differ by exactly
\* +1, and otherwise succeeds returning the table's values.
C3_IntegerIndexConsecutive ==
    (PreDone /\ IsTable /\ ppIn.data.index.kind = "int" /\ TableValid) =>
        LET l == ppIn.data.index.labels
        IN  IF \E i \in 1..(Len(l) - 1) : l[i + 1] # l[i] + 1
            THEN ppOut.exc = "IndexError"
            ELSE /\ ppOut.exc = "none"
                 /\ ppOut.values.vals = ppIn.data.vals
                 /\ ppOut.values.shape = <<Len(l), ppIn.n_obs>>

\* C3 witness: a consecutive integer index that does not start at 0 was accepted
C3_Witness ==
    /\ PreDone /\ IsTable /\ ppIn.data.index.kind = "int"
    /\ Len(ppIn.data.index.labels) >= 2 /\ ppIn.data.index.labels[1] = 1
    /\ ppOut.exc = "none"

(***************************************************************************)
(* Properties of the masker (checked under SpecMask).                       *)
(***************************************************************************)
MaskDone == mkOut.exc # "pending"
MaskFill ==
    IF mkIn.missing_fill_value.some THEN mkIn.missing_fill_value.v ELSE Fin(-9999)
MaskCells == 1..Len(mkIn.values.vals)

\* C4: whenever masking succeeds, writing NaN back at the positions where the
\* returned mask is true reproduces the original matrix entry for entry.
C4_RoundTrip ==
    (MaskDone /\ mkOut.exc = "none") =>
        /\ Len(mkOut.filled.vals) = Len(mkIn.values.vals)
        /\ \A i \in MaskCells :
              (IF mkOut.mask.vals[i] THEN NaN ELSE mkOut.filled.vals[i]) = mkIn.values.vals[i]

\* C5: masking fails with ValueError exactly when the input has at least one
\* masked entry (an entry masked_invalid masks: not finite) and at least one
\* entry equal to the sentinel; with no masked entry it succeeds even if the
\* sentinel occurs, returns the values unchanged and emits no warning.
C5_CollisionOnlyWhenMasked ==
    MaskDone =>
        LET someMasked == \E i \in MaskCells : mkIn.values.vals[i].k # "fin"
            someSentinel == \E i \in MaskCells : mkIn.values.vals[i] = MaskFill
        IN  /\ (mkOut.exc = "ValueError") <=> (someMasked /\ someSentinel)
            /\ mkOut.exc \in {"ValueError", "none"}
            /\ ~someMasked =>
                  /\ mkOut.exc = "none"
                  /\ mkOut.filled = mkIn.values
                  /\ mkOut.warns = <<>>

\* C5 witness: the sentinel occurs in data without masked entries, and the
\* call succeeded
C5_Witness ==
    /\ MaskDone /\ mkOut.exc = "none"
    /\ \A i \in MaskCells : mkIn.values.vals[i].k = "fin"
    /\ \E i \in MaskCells : mkIn.values.vals[i] = MaskFill

\* C6: whenever masking succeeds, the mask has the input's shape and is true
\* exactly where the source value was NaN (not for infinities), and the filled
\* matrix is the sentinel at masked positions and the source value elsewhere.
C6_MaskIffNaN ==
    (MaskDone /\ mkOut.exc = "none") =>
        /\ mkOut.mask.shape = mkIn.values.shape
        /\ Len(mkOut.mask.vals) = Len(mkIn.values.vals)
        /\ \A i \in MaskCells :
              /\ mkOut.mask.vals[i] <=> (mkIn.values.vals[i] = NaN)
              /\ mkOut.filled.vals[i] =
                    IF mkOut.mask.vals[i] THEN MaskFill ELSE mkIn.values.vals[i]

\* C6, NaN part alone: on inputs without infinite entries the mask marks the NaN
\* entries and the fill is as stated
C6_MaskIffNaN_NoInf ==
    (MaskDone /\ mkOut.exc = "none" /\ \A i \in MaskCells : mkIn.values.vals[i].k # "inf") =>
        /\ mkOut.mask.shape = mkIn.values.shape
        /\ \A i \in MaskCells :
              /\ mkOut.mask.vals[i] <=> (mkIn.values.vals[i] = NaN)
              /\ mkOut.filled.vals[i] =
                    IF mkOut.mask.vals[i] THEN MaskFill ELSE mkIn.values.vals[i]

(***************************************************************************)
(* Properties of the registration (checked under SpecRegister).             *)
(***************************************************************************)
IsTimeConflict == regLast.exc = "ValueError" /\ regLast.why = "time_index_conflict"

\* C7: add_data_to_active_model treats the time coordinate in three ways:
\* absent: created with the given index; present but None: set to the given
\* index; bound: left as is when equal to the index element-wise, and the call
\* fails with the coordinate-conflict ValueError when they differ, declaring no
\* data input.
C7_TimeCoordThreeWays ==
    regLast.called =>
        LET td == regLast.time_dim
        IN  /\ td \in DOMAIN coords
            /\ regLast.pre \in {"absent", "empty"} =>
                  (coords[td] = Some(regLast.index) /\ ~IsTimeConflict)
            /\ regLast.pre = "bound" =>
                  /\ coords[td] = Some(regLast.found)
                  /\ IsTimeConflict <=> (regLast.found # regLast.index)
                  /\ IsTimeConflict => ~regLast.declared

\* C7 witness: a direct call whose index differs from the bound coordinate
\* failed with the conflict error and declared nothing
C7_Witness ==
    /\ regLast.op = "add_data" /\ regLast.pre = "bound"
    /\ regLast.found # regLast.index /\ IsTimeConflict /\ ~regLast.declared

\* C10: once a time coordinate is bound, no later call (succeeding or failing)
\* changes it; a call with a different index fails and does not overwrite it.
C10_BoundCoordNeverChanges ==
    [][\A dim \in DOMAIN coords :
          (coords[dim].some /\ coords[dim].v # <<>>) =>
              /\ dim \in DOMAIN coords'
              /\ coords'[dim] = coords[dim]
              /\ (regLast'.called /\ regLast'.time_dim = dim
                    /\ regLast'.index # coords[dim].v) => regLast'.exc # "none"]_vars

\* C10 witness: register_data_with_pymc reached the model with an index that
\* differs from the bound coordinate, failed, and the coordinate is as before
C10_Witness ==
    /\ regLast.op = "register" /\ regLast.called /\ regLast.pre = "bound"
    /\ regLast.found # regLast.index /\ regLast.exc # "none"
    /\ coords[regLast.time_dim] = Some(regLast.found)

(***************************************************************************)
(* Properties of the simulation (checked under SpecSim).                    *)
(***************************************************************************)
SimRunning == simS.pc \in {"loop", "done"}

\* the returned y (squeezed, k_endog = 1) holds the noiseless observation of
\* the returned x at every step from step `first` on
ReturnedObservations(first) ==
    simS.pc = "done" =>
        /\ simS.ret.y.shape = <<simP.steps>>
        /\ \A t \in first..(simP.steps - 1) :
              <<simS.ret.y.vals[t + 1]>> =
                  VecAdd(simP.d, MatVec(ZAt(simP.Z, t), simS.ret.x[t + 1]))

\* C8: with H all-zero, every computed observation, the initial one included,
\* is y[t] = d + Z_t x[t].
C8_ObservationEquation ==
    (SimRunning /\ AllCloseZero(simP.H)) =>
        /\ \A t \in 0..(simS.t - 1) :
              simS.y[t + 1] = VecAdd(simP.d, MatVec(ZAt(simP.Z, t), simS.x[t + 1]))
        /\ ReturnedObservations(0)

\* C8, loop steps alone: with H all-zero, y[t] = d + Z_t x[t] for t >= 1
C8_ObservationEquationAfterStart ==
    (SimRunning /\ AllCloseZero(simP.H)) =>
        /\ \A t \in 1..(simS.t - 1) :
              simS.y[t + 1] = VecAdd(simP.d, MatVec(ZAt(simP.Z, t), simS.x[t + 1]))
        /\ ReturnedObservations(1)

\* C9: with Q and H zero (or k_posdef = 0) the states follow x[0] = x0 and
\* x[t] = c + T x[t-1], whatever the generator draws.
C9_DeterministicTrajectory ==
    (SimRunning /\ (simP.k_posdef = 0
                    \/ (AllCloseZero(simP.Q) /\ AllCloseZero(simP.H)))) =>
        /\ simS.x[1] = simP.x0
        /\ \A t \in 1..(simS.t - 1) :
              simS.x[t + 1] = VecAdd(simP.c, MatVec(simP.T, simS.x[t]))
        /\ simS.pc = "done" =>
              /\ Len(simS.ret.x) = simP.steps
              /\ simS.ret.x[1] = simP.x0
              /\ \A t \in 1..(simP.steps - 1) :
                    simS.ret.x[t + 1] = VecAdd(simP.c, MatVec(simP.T, simS.ret.x[t]))

\* C9 witness: a finished run with a process-noise dimension, Q and H zero and
\* a non-zero intercept
C9_Witness ==
    /\ simS.pc = "done" /\ simP.k_posdef = 1
    /\ AllCloseZero(simP.Q) /\ AllCloseZero(simP.H)
    /\ simP.c # Zeros(2) /\ simS.t = simP.steps /\ simP.steps >= 2

====
